---- MODULE Spec2Model ----
(***************************************************************************)
(* Model of modules/chart_engine/variation/template_registry.py: the      *)
(* template registry (scan of the four engine directories into the        *)
(* module-level dictionary `variations`, and the two resolvers).          *)
(*                                                                         *)
(* Strings are sequences of one-character strings, so that lower(),       *)
(* endswith(), startswith(), split('.'), the substring test and the       *)
(* character-set intersection are computed as the code computes them.     *)
(* A Python dict is a sequence of [k, v] entries in insertion order       *)
(* (Python dicts iterate in insertion order; overwriting a key keeps its  *)
(* position).                                                              *)
(***************************************************************************)
EXTENDS Integers, Sequences, FiniteSets, TLC

\* ------------------------------------------------------------------ bounds
\* Most directory entries (files, over the four trees) one filesystem holds.
MaxFiles == 2
\* Most engine root directories that do not exist in one filesystem.
MaxMissingRoots == 1

\* ----------------------------------------------------------------- strings
\* str.lower() on one character (the alphabet of the model).
LowerChar(c) ==
    CASE c = "A" -> "a"
      [] c = "B" -> "b"
      [] c = "C" -> "c"
      [] c = "L" -> "l"
      [] c = "P" -> "p"
      [] c = "R" -> "r"
      [] OTHER -> c

\* str.lower()
Lower(s) == [i \in DOMAIN s |-> LowerChar(s[i])]

\* str.endswith(suffix)
EndsWith(s, suffix) ==
    /\ Len(suffix) <= Len(s)
    /\ SubSeq(s, Len(s) - Len(suffix) + 1, Len(s)) = suffix

\* str.startswith(prefix)
StartsWith(s, prefix) ==
    /\ Len(prefix) <= Len(s)
    /\ SubSeq(s, 1, Len(prefix)) = prefix

\* s.split('.')[0]: the part of s before its first dot (all of s without one).
SplitDotFirst(s) ==
    LET dots == {i \in DOMAIN s : s[i] = "."}
    IN  IF dots = {} THEN s
        ELSE SubSeq(s, 1, (CHOOSE i \in dots : \A j \in dots : i <= j) - 1)

\* Python's `a in b` on strings: a is a contiguous substring of b.
IsSubstring(a, b) ==
    \E i \in 1..(Len(b) - Len(a) + 1) : SubSeq(b, i, i + Len(a) - 1) = a

\* set(s): the distinct characters of s.
CharSet(s) == {s[i] : i \in DOMAIN s}

\* ------------------------------------------------------------ ordered dicts
EmptyDict == << >>

\* k in d
HasKey(d, k) == \E i \in DOMAIN d : d[i].k = k

\* d[k] (used only where k in d)
GetKey(d, k) == d[CHOOSE i \in DOMAIN d : d[i].k = k].v

\* d[k] = val: a new key goes last; an existing key keeps its position.
SetKey(d, k, val) ==
    IF HasKey(d, k)
    THEN [i \in DOMAIN d |-> IF d[i].k = k THEN [k |-> k, v |-> val] ELSE d[i]]
    ELSE Append(d, [k |-> k, v |-> val])

\* ------------------------------------------------------------------ engines
\* The keys of `variations`, in the order the dict literal lists them.
EngineOrder == <<"echarts_py", "echarts-js", "d3-js", "vegalite_py">>

Engines == {EngineOrder[i] : i \in DOMAIN EngineOrder}

\* The order in which scan_variations clears the four buckets.
ClearOrder == <<"vegalite_py", "echarts_py", "echarts-js", "d3-js">>

\* The order in which scan_variations walks the four roots.
ScanOrder == <<"echarts_py", "echarts-js", "d3-js", "vegalite_py">>

PyExt == <<".", "p", "y">>

JsExt == <<".", "j", "s">>

\* The file extension scan_variations passes for each engine.
Extension(engine) ==
    IF engine \in {"echarts_py", "vegalite_py"} THEN PyExt ELSE JsExt

\* engine_preference when the caller passes None.
DefaultPreference == <<"echarts_py", "echarts-js", "d3-js">>

\* The module-level dictionary as the module body creates it.
InitialVariations == [e \in Engines |-> EmptyDict]

\* ------------------------------------------------------------- file system
\* A JSON value of the requirements object: a string, some other JSON value
\* (number, null, list, ...), or the key is absent.
Absent == [tag |-> "absent", s |-> << >>]

NonString == [tag |-> "other", s |-> << >>]

Str(s) == [tag |-> "str", s |-> s]

\* One directory entry that is a file. `item` is its file name, `path` its path
\* below the variation directory, `block` says what REQUIREMENTS_PATTERN
\* finds in its text ("none": no block, "badjson": a block json.loads
\* rejects, "json": a block holding a JSON object), chart_type/chart_name
\* are the values of those keys in that object, and `loads` says whether
\* exec_module of the file returns normally.  Every file is readable UTF-8
\* text.  A tree is given as the sequence of its files in the order the
\* recursive walk meets them, subdirectories included.
File(engine, path, item, block, chart_type, chart_name, loads) ==
    [engine |-> engine, path |-> path, item |-> item, block |-> block,
     chart_type |-> chart_type, chart_name |-> chart_name, loads |-> loads]

\* The files a filesystem of the model is made of, by name.
Files ==
    [BarPy |->
        File("echarts_py", "echarts_py/bar/bar.py", <<"b","a","r",".","p","y">>,
             "json", Str(<<"B","a","r">>),
             Str(<<"B","a","r","C","h","a","r","t">>), TRUE),
     RadarPy |->
        File("echarts_py", "echarts_py/Radar.v2.py",
             <<"R","a","d","a","r",".","v","2",".","p","y">>,
             "json", Str(<<"b","a","r">>), Absent, TRUE),
     PiePy |->
        File("echarts_py", "echarts_py/pie.py", <<"p","i","e",".","p","y">>,
             "json", Str(<<"P","i","e">>), Absent, FALSE),
     InitPy |->
        File("echarts_py", "echarts_py/__init__.py",
             <<"_","_","i","n","i","t","_","_",".","p","y">>,
             "json", Str(<<"b","a","r">>), Absent, TRUE),
     LineJs |->
        File("echarts-js", "echarts-js/line/Line.js",
             <<"L","i","n","e",".","j","s">>,
             "json", Str(<<"L","i","n","e">>), Absent, TRUE),
     PlainJs |->
        File("echarts-js", "echarts-js/plain.js",
             <<"p","l","a","i","n",".","j","s">>,
             "none", Absent, Absent, TRUE),
     NumTypeJs |->
        File("echarts-js", "echarts-js/num.js", <<"n","u","m",".","j","s">>,
             "json", NonString, Absent, TRUE),
     RadarJs |->
        File("d3-js", "d3-js/radar.js", <<"r","a","d","a","r",".","j","s">>,
             "json", Str(<<"b","a","r">>), Str(<<"R","a","d","a","r">>), TRUE),
     BrokenJs |->
        File("d3-js", "d3-js/broken.js",
             <<"b","r","o","k","e","n",".","j","s">>,
             "badjson", Absent, Absent, TRUE),
     NumNameJs |->
        File("d3-js", "d3-js/nn.js", <<"n","n",".","j","s">>,
             "json", Str(<<"b","a","r">>), NonString, TRUE),
     NotesTxt |->
        File("d3-js", "d3-js/notes.txt",
             <<"n","o","t","e","s",".","t","x","t">>,
             "json", Str(<<"b","a","r">>), Absent, TRUE),
     AreaPy |->
        File("vegalite_py", "vegalite_py/area.py",
             <<"a","r","e","a",".","p","y">>,
             "json", Str(<<"A","r","e","a">>), Str(<<"A","r","e","a">>), TRUE),
     NoTypePy |->
        File("vegalite_py", "vegalite_py/nt.py", <<"n","t",".","p","y">>,
             "json", Absent, Str(<<"n","t">>), TRUE)]

FilePool == DOMAIN Files

\* The sequences of at most MaxFiles distinct files.
FileSeqs ==
    UNION {{s \in [1..n -> FilePool] : \A i, j \in 1..n : s[i] = s[j] => i = j}
           : n \in 0..MaxFiles}

\* The files of one engine's tree among those of s, in the order of s.
ListingOf(s, engine) == SelectSeq(s, LAMBDA f : Files[f].engine = engine)

\* The filesystems a scan may find: the listing of each engine's tree (its
\* files in the order the recursive walk of scan_directory meets them;
\* os.listdir order is arbitrary, so every order occurs), and the engine roots
\* that do not exist (os.path.exists is false), which hold no file.
FsSet ==
    {fs \in {[listing |-> [e \in Engines |-> ListingOf(s, e)], missing |-> m] :
                s \in FileSeqs,
                m \in {y \in SUBSET Engines : Cardinality(y) <= MaxMissingRoots}} :
        \A e \in fs.missing : fs.listing[e] = << >>}

\* No directory has been walked.
NoFs == [listing |-> [e \in Engines |-> << >>], missing |-> {}]

\* --------------------------------------------------------------- scanning
\* load_python_variation: the module object made from the file.
load_python_variation(f) == [kind |-> "module", path |-> Files[f].path]

\* extract_requirements of a readable text file: None (no block, or a block
\* json.loads rejects, with a warning printed) or the parsed object.
extract_requirements(f) ==
    IF Files[f].block = "json" THEN "dict" ELSE "None"

\* Classify with line 75 missing its .lower().
ClassifyNoLower(engine, f) ==
    IF \/ ~EndsWith(Files[f].item, Extension(engine))
       \/ Extension(engine) = PyExt /\ StartsWith(Files[f].item, <<"_", "_">>)
       \/ Files[f].block # "json"
       \/ Files[f].chart_type.tag = "absent"
    THEN [kind |-> "skip", chart_type |-> << >>, chart_name |-> << >>]
    ELSE IF \/ Files[f].chart_type.tag # "str"
            \/ Files[f].chart_name.tag = "other"
    THEN [kind |-> "raise", chart_type |-> << >>, chart_name |-> << >>]
    ELSE [kind |-> "register",
          chart_type |-> Files[f].chart_type.s,
          chart_name |-> IF Files[f].chart_name.tag = "absent"
                         THEN Lower(SplitDotFirst(Files[f].item))
                         ELSE Lower(Files[f].chart_name.s)]

\* Classify that skips a file without chart_name instead of naming it after
\* the file.
ClassifyRequiresName(engine, f) ==
    IF \/ ~EndsWith(Files[f].item, Extension(engine))
       \/ Extension(engine) = PyExt /\ StartsWith(Files[f].item, <<"_", "_">>)
       \/ Files[f].block # "json"
       \/ Files[f].chart_type.tag = "absent"
       \/ Files[f].chart_type.tag = "str" /\ Files[f].chart_name.tag = "absent"
    THEN [kind |-> "skip", chart_type |-> << >>, chart_name |-> << >>]
    ELSE IF \/ Files[f].chart_type.tag # "str"
            \/ Files[f].chart_name.tag = "other"
    THEN [kind |-> "raise", chart_type |-> << >>, chart_name |-> << >>]
    ELSE [kind |-> "register",
          chart_type |-> Lower(Files[f].chart_type.s),
          chart_name |-> Lower(Files[f].chart_name.s)]

\* Lines 65-82 of scan_directory for one directory entry: what the loop body
\* decides before it loads or stores anything.  "skip": the entry registers
\* nothing; "raise": an exception leaves the loop (AttributeError of .lower()
\* on a value that is no string); "register": lines 81-95 run for the
\* lowercased chart_type and chart_name.
Classify(engine, f) ==
    LET skip == [kind |-> "skip", chart_type |-> << >>, chart_name |-> << >>]
        raise == [kind |-> "raise", chart_type |-> << >>, chart_name |-> << >>]
    IN
    IF ~EndsWith(Files[f].item, Extension(engine)) THEN skip
    ELSE IF Extension(engine) = PyExt /\ StartsWith(Files[f].item, <<"_", "_">>) THEN skip
    ELSE IF extract_requirements(f) = "None" THEN skip
    ELSE IF Files[f].chart_type.tag = "absent" THEN skip
    ELSE IF Files[f].chart_type.tag # "str" THEN raise
    ELSE LET name == IF Files[f].chart_name.tag = "absent"
                     THEN Str(SplitDotFirst(Files[f].item))
                     ELSE Files[f].chart_name
         IN  IF name.tag # "str" THEN raise
             ELSE [kind |-> "register",
                   chart_type |-> Lower(Files[f].chart_type.s),
                   chart_name |-> Lower(name.s)]

\* Lines 81-82: variations[engine_type][chart_type] = {} unless present.
EnsureBucket(v, engine, chart_type) ==
    IF HasKey(v[engine], chart_type) THEN v
    ELSE [v EXCEPT ![engine] = SetKey(v[engine], chart_type, EmptyDict)]

\* Lines 85-88: the handle stored for the file (the loaded module for
\* echarts_py, the file's path for every other engine).
Variation(engine, f) ==
    IF engine = "echarts_py"
    THEN load_python_variation(f)
    ELSE [kind |-> "path", path |-> Files[f].path]

\* Line 86 raises when exec_module of the file fails.
LoadRaises(engine, f) == engine = "echarts_py" /\ ~Files[f].loads

\* Lines 91-95: the record stored at [engine_type][chart_type][chart_name]
\* (its requirements are the object parsed from file f, kept by f's name).
StoreRecord(v, engine, chart_type, chart_name, f) ==
    LET rec == [engine_type |-> engine,
                variation |-> Variation(engine, f),
                requirements |-> f]
    IN  [v EXCEPT ![engine] =
            SetKey(v[engine], chart_type,
                   SetKey(GetKey(v[engine], chart_type), chart_name, rec))]

\* The loop body of scan_directory for one file: [v, raised].
ProcessFile(v, engine, f) ==
    LET Register(c, v1) ==
            IF LoadRaises(engine, f)
            THEN [v |-> v1, raised |-> TRUE]
            ELSE [v |-> StoreRecord(v1, engine, c.chart_type, c.chart_name, f),
                  raised |-> FALSE]
        Body(c) ==
            IF c.kind = "skip" THEN [v |-> v, raised |-> FALSE]
            ELSE IF c.kind = "raise" THEN [v |-> v, raised |-> TRUE]
            ELSE Register(c, EnsureBucket(v, engine, c.chart_type))
    IN  Body(Classify(engine, f))

\* scan_directory over the files of one tree from position i on; an
\* exception ends the walk where it is raised.
RECURSIVE ScanListing(_, _, _, _)
ScanListing(v, engine, listing, i) ==
    IF i > Len(listing) THEN [v |-> v, raised |-> FALSE]
    ELSE LET Rest(r) == IF r.raised THEN r
                        ELSE ScanListing(r.v, engine, listing, i + 1)
         IN  Rest(ProcessFile(v, engine, listing[i]))

\* scan_directory(dir_path, engine_type, file_extension) on a root.
scan_directory(v, engine, fs) ==
    IF engine \in fs.missing THEN [v |-> v, raised |-> FALSE]
    ELSE ScanListing(v, engine, fs.listing[engine], 1)

\* Lines 117-120: the four clear() calls.
ClearAll(v) == [e \in Engines |-> EmptyDict]

\* Lines 124-138: the four scan_directory calls from position i of ScanOrder
\* on; `walked` lists the roots scan_directory was called for.
RECURSIVE ScanRoots(_, _, _, _)
ScanRoots(v, fs, i, walked) ==
    IF i > Len(ScanOrder) THEN [v |-> v, raised |-> FALSE, walked |-> walked]
    ELSE LET Rest(r) ==
                 IF r.raised
                 THEN [v |-> r.v, raised |-> TRUE,
                       walked |-> Append(walked, ScanOrder[i])]
                 ELSE ScanRoots(r.v, fs, i + 1, Append(walked, ScanOrder[i]))
         IN  Rest(scan_directory(v, ScanOrder[i], fs))

\* scan_variations without the early return of lines 113-114.
ScanVariationsAlways(v, flag, force, found) ==
    LET Done(r) == [v |-> r.v,
                    scanned |-> IF r.raised THEN flag ELSE TRUE,
                    raised |-> r.raised,
                    walked |-> r.walked]
    IN  Done(ScanRoots(ClearAll(v), found.fs, 1, << >>))

\* What lines 124-138 do from the cleared registry on each filesystem of
\* FsSet, computed once: [fs, r] with r the result of ScanRoots.
Walks ==
    {[fs |-> fs, r |-> ScanRoots(InitialVariations, fs, 1, << >>)] : fs \in FsSet}

\* The same for a call that looks at no directory.
NoWalk == [fs |-> NoFs, r |-> ScanRoots(InitialVariations, NoFs, 1, << >>)]

\* scan_variations(force) on the registry [v, flag], where found.fs is the
\* filesystem the call finds: the registry it leaves, whether an exception
\* left it, and the roots it walked.  found.r is used for the walk when the
\* cleared registry is the empty one it was computed from.
scan_variations(v, flag, force, found) ==
    IF flag /\ ~force
    THEN [v |-> v, scanned |-> flag, raised |-> FALSE, walked |-> << >>]
    ELSE LET Done(r) == [v |-> r.v,
                         scanned |-> IF r.raised THEN flag ELSE TRUE,
                         raised |-> r.raised,
                         walked |-> r.walked]
         IN  Done(IF ClearAll(v) = InitialVariations
                  THEN found.r
                  ELSE ScanRoots(ClearAll(v), found.fs, 1, << >>))

\* -------------------------------------------------------------- resolvers
\* The pair (None, None).
NotFound ==
    [engine |-> "None", variation |-> [kind |-> "none", path |-> ""],
     chart_type |-> << >>, chart_name |-> << >>, pass |-> "none"]

\* The pair (variation_info['engine_type'], variation_info['variation']) of
\* the record at [engine][chart_type][chart_name], with the keys it was found
\* under and the pass that found it.
Found(v, engine, chart_type, chart_name, pass) ==
    LET info == GetKey(GetKey(v[engine], chart_type), chart_name)
    IN  [engine |-> info.engine_type, variation |-> info.variation,
         chart_type |-> chart_type, chart_name |-> chart_name, pass |-> pass]

\* ExactPass that keeps looking after a hit: the last engine of the list
\* that holds the type wins.
RECURSIVE ExactPassLast(_, _, _, _)
ExactPassLast(v, chart_type, preference, i) ==
    IF i > Len(preference) THEN 0
    ELSE LET later == ExactPassLast(v, chart_type, preference, i + 1)
         IN  IF later # 0 THEN later
             ELSE IF /\ HasKey(v[preference[i]], chart_type)
                     /\ Len(GetKey(v[preference[i]], chart_type)) > 0
                  THEN i
                  ELSE 0

\* Lines 167-174: the position in engine_preference of the first engine that
\* holds chart_type with at least one chart name (0: none does).
RECURSIVE ExactPass(_, _, _, _)
ExactPass(v, chart_type, preference, i) ==
    IF i > Len(preference) THEN 0
    ELSE IF /\ HasKey(v[preference[i]], chart_type)
            /\ Len(GetKey(v[preference[i]], chart_type)) > 0
         THEN i
         ELSE ExactPass(v, chart_type, preference, i + 1)

\* Line 179: chart_type in variation_type or variation_type in chart_type.
PartialMatch(chart_type, variation_type) ==
    IsSubstring(chart_type, variation_type) \/ IsSubstring(variation_type, chart_type)

\* Lines 177-185: the first (engine, registered type) in preference order,
\* then in the bucket's order, that matches partially and holds a chart name
\* ([i |-> 0, j |-> 0]: none does).
RECURSIVE PartialPass(_, _, _, _, _)
PartialPass(v, chart_type, preference, i, j) ==
    IF i > Len(preference) THEN [i |-> 0, j |-> 0]
    ELSE IF j > Len(v[preference[i]])
         THEN PartialPass(v, chart_type, preference, i + 1, 1)
         ELSE IF /\ PartialMatch(chart_type, v[preference[i]][j].k)
                 /\ Len(v[preference[i]][j].v) > 0
              THEN [i |-> i, j |-> j]
              ELSE PartialPass(v, chart_type, preference, i, j + 1)

\* An argument engine_preference: None, or a list of engines.
NoPreference == [given |-> FALSE, list |-> << >>]

Preference(list) == [given |-> TRUE, list |-> list]

\* Lines 162-187 of get_variation_for_chart_type on the registry v: every
\* result the call can return (random.choice picks any chart name of the
\* bucket), each with partial_ran telling whether the loop of line 177 was
\* entered.
get_variation_for_chart_type(v, chart_type_arg, engine_preference) ==
    LET chart_type == Lower(chart_type_arg)
        preference == IF engine_preference.given
                      THEN engine_preference.list
                      ELSE DefaultPreference
        i == ExactPass(v, chart_type, preference, 1)
        p == PartialPass(v, chart_type, preference, 1, 1)
    IN  IF i # 0
        THEN {[result |-> Found(v, preference[i], chart_type, n, "exact"),
               partial_ran |-> FALSE] :
                 n \in {x.k : x \in
                          {GetKey(v[preference[i]], chart_type)[m] :
                             m \in DOMAIN GetKey(v[preference[i]], chart_type)}}}
        ELSE IF p.i # 0
        THEN {[result |-> Found(v, preference[p.i], v[preference[p.i]][p.j].k, n,
                                "partial"),
               partial_ran |-> TRUE] :
                 n \in {v[preference[p.i]][p.j].v[m].k :
                          m \in DOMAIN v[preference[p.i]][p.j].v}}
        ELSE {[result |-> NotFound, partial_ran |-> TRUE]}

\* Lines 210-214: the first (engine, chart type), in the iteration order of
\* `variations`, whose chart_dict holds chart_name.
RECURSIVE ExactName(_, _, _, _)
ExactName(v, chart_name, i, j) ==
    IF i > Len(EngineOrder) THEN [i |-> 0, j |-> 0]
    ELSE IF j > Len(v[EngineOrder[i]])
         THEN ExactName(v, chart_name, i + 1, 1)
         ELSE IF HasKey(v[EngineOrder[i]][j].v, chart_name)
              THEN [i |-> i, j |-> j]
              ELSE ExactName(v, chart_name, i, j + 1)

\* Overlap with | for &: the size of the union of the character sets.
OverlapUnion(chart_name, name) ==
    Cardinality(CharSet(chart_name) \cup CharSet(name))

\* Line 233: len(set(chart_name) & set(name)).
Overlap(chart_name, name) == Cardinality(CharSet(chart_name) \cap CharSet(name))

\* Better with >= for >: a tie replaces the best match so far.
BetterOrEqual(overlap, max_overlap) == overlap >= max_overlap

\* Line 234: the test that replaces the best match so far.
Better(overlap, max_overlap) == overlap > max_overlap

\* Lines 224-241: the three nested loops from (engine i, type j, name k) on;
\* best is [max_overlap, result] so far.
RECURSIVE BestMatch(_, _, _, _, _, _)
BestMatch(v, chart_name, i, j, k, best) ==
    IF i > Len(EngineOrder) THEN best
    ELSE IF j > Len(v[EngineOrder[i]])
         THEN BestMatch(v, chart_name, i + 1, 1, 1, best)
         ELSE IF k > Len(v[EngineOrder[i]][j].v)
              THEN BestMatch(v, chart_name, i, j + 1, 1, best)
              ELSE LET name == v[EngineOrder[i]][j].v[k].k
                       overlap == Overlap(chart_name, name)
                   IN  BestMatch(v, chart_name, i, j, k + 1,
                         IF Better(overlap, best.max_overlap)
                         THEN [max_overlap |-> overlap,
                               result |-> Found(v, EngineOrder[i],
                                                v[EngineOrder[i]][j].k, name,
                                                "similarity")]
                         ELSE best)

\* Lines 207-245 of get_variation_for_chart_name on the registry v.
get_variation_for_chart_name(v, chart_name_arg) ==
    LET chart_name == Lower(chart_name_arg)
        e == ExactName(v, chart_name, 1, 1)
    IN  IF e.i # 0
        THEN Found(v, EngineOrder[e.i], v[EngineOrder[e.i]][e.j].k, chart_name, "exact")
        ELSE BestMatch(v, chart_name, 1, 1, 1,
                       [max_overlap |-> 0, result |-> NotFound]).result

\* ------------------------------------------------------------------ state
VARIABLES
    variations,          \* the module-level dict: engine -> type -> name -> record
    variations_scanned,  \* the module-level flag _variations_scanned
    walk,                \* how the most recent walk of the roots ended
    last,                \* the call that returned last, with what it returned
    thr,                 \* per thread: where it is in the call it is making
    cfs,                 \* the filesystem of the threaded runs (it never changes)
    observed             \* what the resolver thread's last call returned

vars == <<variations, variations_scanned, walk, last, thr, cfs, observed>>

\* The state of the threaded specification, which the one-caller
\* specification leaves alone.
threaded == <<thr, cfs, observed>>

\* The chart types, engine preferences and chart names callers ask for.
TypeQueries ==
    {<<"b","a","r">>, <<"B","A","R">>, <<"B","a","r">>, <<"b","a">>,
     <<"p","i","e">>, <<"A","r","e","a">>, <<"l","i","n","e","s">>}

Preferences ==
    {NoPreference,
     Preference(<<"d3-js", "echarts_py">>),
     Preference(<<"vegalite_py", "echarts-js">>),
     Preference(<< >>)}

NameQueries ==
    {<<"b","a","r">>, <<"r","a">>, <<"R","A","D","A","R">>, <<"x","y">>,
     <<"A","r","e","a">>, << >>}

\* No call has returned that the caller has not yet acted on.
Idle ==
    [op |-> "idle", arg |-> << >>, preference |-> NoPreference, force |-> FALSE,
     fs |-> NoFs, raised |-> FALSE, walked |-> << >>,
     result |-> NotFound, partial_ran |-> FALSE]

\* The filesystems a call can find: it looks at none when it does not walk.
FsSeen(walks) == IF walks THEN Walks ELSE {NoWalk}

\* How the most recent walk of the roots ended, after a call that walked the
\* roots in `walked` and raised or not.
WalkAfter(walked, raised) ==
    IF walked = << >> THEN walk
    ELSE IF raised THEN "aborted" ELSE "completed"

\* Lines 159-160 and 204-205: if not _variations_scanned: scan_variations().
EnsureScanned(v, flag, found) ==
    IF ~flag
    THEN scan_variations(v, flag, FALSE, found)
    ELSE [v |-> v, scanned |-> flag, raised |-> FALSE, walked |-> << >>]

\* A thread that is in no call.
IdleThread ==
    [pc |-> "idle", caller |-> "none", force |-> FALSE, began |-> FALSE,
     ci |-> 1, ei |-> 1, fi |-> 1, walked |-> FALSE, chart_type |-> << >>,
     race |-> FALSE, before |-> InitialVariations]

Threads == {"scanner", "resolver"}

\* The resolver thread has returned from no call yet.
NothingObserved ==
    [op |-> "none", arg |-> << >>, raised |-> FALSE, walked |-> FALSE,
     race |-> FALSE, before |-> InitialVariations,
     result |-> NotFound, partial_ran |-> FALSE]

Init ==
    /\ variations = InitialVariations
    /\ variations_scanned = FALSE
    /\ walk = "never"
    /\ last = Idle
    /\ thr = [t \in Threads |-> IdleThread]
    /\ cfs = NoFs
    /\ observed = NothingObserved

\* A caller calls scan_variations(force).
ScanCall(force) ==
    /\ last.op = "idle"
    /\ \E found \in FsSeen(~variations_scanned \/ force) :
         \E r \in {scan_variations(variations, variations_scanned, force, found)} :
             /\ variations' = r.v
             /\ variations_scanned' = r.scanned
             /\ walk' = WalkAfter(r.walked, r.raised)
             /\ last' = [Idle EXCEPT !.op = "scan", !.force = force, !.fs = found.fs,
                                     !.raised = r.raised, !.walked = r.walked]
    /\ UNCHANGED threaded

\* A caller calls get_variation_for_chart_type(chart_type, engine_preference).
ResolveByType(chart_type, engine_preference) ==
    /\ last.op = "idle"
    /\ \E found \in FsSeen(~variations_scanned) :
         \E s \in {EnsureScanned(variations, variations_scanned, found)} :
             /\ variations' = s.v
             /\ variations_scanned' = s.scanned
             /\ walk' = WalkAfter(s.walked, s.raised)
             /\ \E o \in IF s.raised
                         THEN {[result |-> NotFound, partial_ran |-> FALSE]}
                         ELSE get_variation_for_chart_type(s.v, chart_type,
                                                           engine_preference) :
                  last' = [Idle EXCEPT !.op = "type", !.arg = chart_type,
                                       !.preference = engine_preference,
                                       !.fs = found.fs, !.raised = s.raised,
                                       !.walked = s.walked,
                                       !.result = o.result,
                                       !.partial_ran = o.partial_ran]
    /\ UNCHANGED threaded

\* A caller calls get_variation_for_chart_name(chart_name).
ResolveByName(chart_name) ==
    /\ last.op = "idle"
    /\ \E found \in FsSeen(~variations_scanned) :
         \E s \in {EnsureScanned(variations, variations_scanned, found)} :
             /\ variations' = s.v
             /\ variations_scanned' = s.scanned
             /\ walk' = WalkAfter(s.walked, s.raised)
             /\ last' = [Idle EXCEPT !.op = "name", !.arg = chart_name,
                                     !.fs = found.fs, !.raised = s.raised,
                                     !.walked = s.walked,
                                     !.result =
                                        IF s.raised THEN NotFound
                                        ELSE get_variation_for_chart_name(s.v, chart_name)]
    /\ UNCHANGED threaded

\* The caller takes the result (or the exception) and goes on.
Return ==
    /\ last.op # "idle"
    /\ last' = Idle
    /\ UNCHANGED <<variations, variations_scanned, walk>>
    /\ UNCHANGED threaded

Next ==
    \/ \E force \in BOOLEAN : ScanCall(force)
    \/ \E t \in TypeQueries, p \in Preferences : ResolveByType(t, p)
    \/ \E n \in NameQueries : ResolveByName(n)
    \/ Return

Spec == Init /\ [][Next]_vars

\* ------------------------------------------------------------ two threads
\* The same code run by two threads of one process with no lock: the thread
\* "scanner" calls scan_variations, the thread "resolver" calls
\* get_variation_for_chart_type with the default preference.  A step is one
\* read of the flag or one mutation of `variations` or of the flag (the
\* interpreter switches threads between such steps, not inside one); the
\* lookup of lines 162-187 is taken as one step.  The filesystem cfs does not
\* change.

\* The files and the chart types of the threaded runs.
ThreadedPool == {"BarPy", "RadarJs", "LineJs", "PiePy"}

ThreadedQueries == {<<"b","a","r">>, <<"L","i","n","e">>}

ThreadedFsSet ==
    {fs \in FsSet :
        /\ fs.missing = {}
        /\ \A e \in Engines : \A i \in DOMAIN fs.listing[e] :
              fs.listing[e][i] \in ThreadedPool}

\* Lines 113-114 with the flag reset when a scan starts.
BeginScanResetsFlag(flag, force) ==
    [skip |-> flag /\ ~force, flag |-> flag /\ ~force]

\* Lines 113-114: whether scan_variations returns at once, and the flag it
\* leaves when it goes on.
BeginScan(flag, force) == [skip |-> flag /\ ~force, flag |-> flag]

\* Thread t is between line 117 and line 141 of a scan_variations call.
Scanning(t) == thr[t].pc \in {"clear", "walk", "store"}

\* The scanner thread is inside a rescan that found the flag set.
RescanInProgress == Scanning("scanner") /\ thr["scanner"].began

\* Where thread t goes when its scan_variations call returns.
AfterScan(t) ==
    IF thr[t].caller = "type"
    THEN [thr[t] EXCEPT !.pc = "lookup"]
    ELSE IdleThread

\* An exception leaves the call thread t is making.
Raise(t) ==
    /\ thr' = [thr EXCEPT ![t] = IdleThread]
    /\ observed' = IF thr[t].caller = "type"
                   THEN [NothingObserved EXCEPT !.op = "type",
                                                !.arg = thr[t].chart_type,
                                                !.raised = TRUE,
                                                !.walked = thr[t].walked]
                   ELSE observed

ThreadedInit ==
    /\ variations = InitialVariations
    /\ variations_scanned = FALSE
    /\ walk = "never"
    /\ last = Idle
    /\ thr = [t \in Threads |-> IdleThread]
    /\ cfs \in ThreadedFsSet
    /\ observed = NothingObserved

\* The scanner thread calls scan_variations(force).
CallScan(force) ==
    /\ thr["scanner"].pc = "idle"
    /\ thr' = [thr EXCEPT !["scanner"] =
                  [IdleThread EXCEPT !.pc = "check", !.caller = "scan",
                                     !.force = force]]
    /\ UNCHANGED <<variations, variations_scanned, walk, last, cfs, observed>>

\* The resolver thread calls get_variation_for_chart_type(chart_type) and
\* reads the flag at line 159.
CallResolve(chart_type) ==
    /\ thr["resolver"].pc = "idle"
    /\ thr' = [thr EXCEPT !["resolver"] =
                  [IdleThread EXCEPT
                      !.pc = IF variations_scanned THEN "lookup" ELSE "check",
                      !.caller = "type",
                      !.chart_type = chart_type,
                      !.race = RescanInProgress]]
    /\ UNCHANGED <<variations, variations_scanned, walk, last, cfs, observed>>

\* Line 113 in thread t.
ThreadCheck(t) ==
    /\ thr[t].pc = "check"
    /\ LET b == BeginScan(variations_scanned, thr[t].force)
       IN  IF b.skip
           THEN /\ thr' = [thr EXCEPT ![t] = AfterScan(t)]
                /\ UNCHANGED variations_scanned
           ELSE /\ thr' = [thr EXCEPT ![t].pc = "clear", ![t].ci = 1,
                                      ![t].began = variations_scanned,
                                      ![t].before = variations,
                                      ![t].walked = TRUE]
                /\ variations_scanned' = b.flag
    /\ UNCHANGED <<variations, walk, last, cfs, observed>>

\* One of the four clear() calls of lines 117-120 in thread t.
ThreadClear(t) ==
    /\ thr[t].pc = "clear"
    /\ variations' = [variations EXCEPT ![ClearOrder[thr[t].ci]] = EmptyDict]
    /\ thr' = IF thr[t].ci = Len(ClearOrder)
              THEN [thr EXCEPT ![t].pc = "walk", ![t].ei = 1, ![t].fi = 1]
              ELSE [thr EXCEPT ![t].ci = @ + 1]
    /\ UNCHANGED <<variations_scanned, walk, last, cfs, observed>>

\* Thread t at the next directory entry of its walk: lines 53-82 for one
\* entry, the end of one root's walk, or line 141 after the last root.
ThreadWalk(t) ==
    /\ thr[t].pc = "walk"
    /\ IF thr[t].ei > Len(ScanOrder)
       THEN /\ variations_scanned' = TRUE
            /\ thr' = [thr EXCEPT ![t] = AfterScan(t)]
            /\ UNCHANGED <<variations, observed>>
       ELSE LET engine == ScanOrder[thr[t].ei]
                listing == cfs.listing[engine]
            IN  IF engine \in cfs.missing \/ thr[t].fi > Len(listing)
                THEN /\ thr' = [thr EXCEPT ![t].ei = @ + 1, ![t].fi = 1]
                     /\ UNCHANGED <<variations, variations_scanned, observed>>
                ELSE LET c == Classify(engine, listing[thr[t].fi])
                     IN  /\ UNCHANGED variations_scanned
                         /\ IF c.kind = "skip"
                            THEN /\ thr' = [thr EXCEPT ![t].fi = @ + 1]
                                 /\ UNCHANGED <<variations, observed>>
                            ELSE IF c.kind = "raise"
                            THEN Raise(t) /\ UNCHANGED variations
                            ELSE /\ variations' =
                                       EnsureBucket(variations, engine, c.chart_type)
                                 /\ thr' = [thr EXCEPT ![t].pc = "store"]
                                 /\ UNCHANGED observed
    /\ UNCHANGED <<walk, last, cfs>>

\* Lines 85-95 in thread t for the entry it classified: the load, then the
\* store into the bucket (a KeyError when another thread's clear() removed
\* the bucket since line 82).
ThreadStore(t) ==
    /\ thr[t].pc = "store"
    /\ LET engine == ScanOrder[thr[t].ei]
           f == cfs.listing[engine][thr[t].fi]
           c == Classify(engine, f)
       IN  IF LoadRaises(engine, f) \/ ~HasKey(variations[engine], c.chart_type)
           THEN Raise(t) /\ UNCHANGED variations
           ELSE /\ variations' =
                      StoreRecord(variations, engine, c.chart_type, c.chart_name, f)
                /\ thr' = [thr EXCEPT ![t].pc = "walk", ![t].fi = @ + 1]
                /\ UNCHANGED observed
    /\ UNCHANGED <<variations_scanned, walk, last, cfs>>

\* Lines 162-187 in the resolver thread, on the registry as it is now.
ThreadLookup ==
    /\ thr["resolver"].pc = "lookup"
    /\ \E o \in get_variation_for_chart_type(variations, thr["resolver"].chart_type,
                                             NoPreference) :
          observed' = [op |-> "type",
                       arg |-> thr["resolver"].chart_type,
                       raised |-> FALSE,
                       walked |-> thr["resolver"].walked,
                       race |-> thr["resolver"].race /\ RescanInProgress,
                       before |-> thr["scanner"].before,
                       result |-> o.result,
                       partial_ran |-> o.partial_ran]
    /\ thr' = [thr EXCEPT !["resolver"] = IdleThread]
    /\ UNCHANGED <<variations, variations_scanned, walk, last, cfs>>

ThreadedNext ==
    \/ \E force \in BOOLEAN : CallScan(force)
    \/ \E t \in ThreadedQueries : CallResolve(t)
    \/ \E t \in Threads : ThreadCheck(t)
    \/ \E t \in Threads : ThreadClear(t)
    \/ \E t \in Threads : ThreadWalk(t)
    \/ \E t \in Threads : ThreadStore(t)
    \/ ThreadLookup

ThreadedSpec == ThreadedInit /\ [][ThreadedNext]_vars

\* ================================================================= claims
\* Helpers of the claims' formulas (they read the state, not the operators
\* that compute it).
UpperChars == {"A", "B", "C", "L", "P", "R"}

IsLowerStr(s) == \A i \in DOMAIN s : s[i] \notin UpperChars

\* The engine list a returned call of get_variation_for_chart_type used.
UsedPreference ==
    IF last.preference.given THEN last.preference.list ELSE DefaultPreference

\* A get_variation_for_chart_type call has returned a result (no exception).
TypeReturned == last.op = "type" /\ ~last.raised

\* A get_variation_for_chart_name call has returned a result (no exception).
NameReturned == last.op = "name" /\ ~last.raised

\* The record the registry holds where last.result says it was found.
ResultIsRecordOf(engine, chart_type) ==
    /\ HasKey(variations[engine], chart_type)
    /\ HasKey(GetKey(variations[engine], chart_type), last.result.chart_name)
    /\ LET rec == GetKey(GetKey(variations[engine], chart_type),
                         last.result.chart_name)
       IN  /\ rec.engine_type = last.result.engine
           /\ rec.variation = last.result.variation

\* File f of engine e's tree is a template file with a valid metadata block
\* that contains a string chart_type (and a chart_name that is a string, if
\* it has one).
ValidTemplate(e, f) ==
    /\ EndsWith(Files[f].item, Extension(e))
    /\ ~(Extension(e) = PyExt /\ StartsWith(Files[f].item, <<"_", "_">>))
    /\ Files[f].block = "json"
    /\ Files[f].chart_type.tag = "str"

\* The files of engine e's tree in the filesystem the last call walked.
WalkedFiles(e) == {last.fs.listing[e][i] : i \in DOMAIN last.fs.listing[e]}

\* The positions (engine, type, name) of the registry, in iteration order.
Positions ==
    {<<i, j, k>> \in (DOMAIN EngineOrder) \X (1..MaxFiles + 1) \X (1..MaxFiles + 1) :
        /\ j \in DOMAIN variations[EngineOrder[i]]
        /\ k \in DOMAIN variations[EngineOrder[i]][j].v}

NameAt(p) == variations[EngineOrder[p[1]]][p[2]].v[p[3]].k

RecordAt(p) == variations[EngineOrder[p[1]]][p[2]].v[p[3]].v

\* p comes no later than q in iteration order.
NotAfter(p, q) ==
    \/ p[1] < q[1]
    \/ p[1] = q[1] /\ p[2] < q[2]
    \/ p[1] = q[1] /\ p[2] = q[2] /\ p[3] <= q[3]

\* The number of distinct characters two strings share.
SharedChars(a, b) ==
    Cardinality({c \in {a[i] : i \in DOMAIN a} : \E j \in DOMAIN b : b[j] = c})

\* Engine e's bucket holds the lowercased chart type of the last call.
HoldsType(e) == HasKey(variations[e], Lower(last.arg))

\* The engines of the default preference, and those of a list.
EnginesOf(list) == {list[i] : i \in DOMAIN list}

\* --------------------------------------------------------------------- C1
\* C1: whenever get_variation_for_chart_type returns and the lowercased
\* chart_type is a key of the bucket of at least one engine of the preference
\* list, the result comes from the exact pass and the partial pass was not
\* entered.
C1_ExactPrecedesPartial ==
    (TypeReturned /\ \E e \in EnginesOf(UsedPreference) : HoldsType(e))
    => (last.result.pass = "exact" /\ ~last.partial_ran)

\* --------------------------------------------------------------------- C2
\* C2 as stated: after a completed scan, for every template file of any of
\* the four engines with a valid metadata block containing chart_type,
\* get_variation_for_chart_type(chart_type) with the default preference does
\* not return (None, None).
C2_AnyEngineFileIsFound ==
    (/\ TypeReturned /\ ~last.preference.given
     /\ last.walked = ScanOrder
     /\ \E e \in Engines : \E f \in WalkedFiles(e) :
          /\ ValidTemplate(e, f)
          /\ Lower(Files[f].chart_type.s) = Lower(last.arg))
    => last.result # NotFound

\* C2 as amended: after a completed scan, for every template file of the
\* three engines of the default preference with a valid metadata block
\* containing chart_type, get_variation_for_chart_type(chart_type) with the
\* default preference does not return (None, None); whenever a default engine
\* holds the type, the result is a record registered under that exact type in
\* an engine whose bucket holds it, and every chart name registered under
\* that (engine, type) is a possible result.
C2_DefaultEngineFileIsFound ==
    (TypeReturned /\ ~last.preference.given /\ walk = "completed")
    => /\ (last.walked = ScanOrder =>
             \A e \in EnginesOf(DefaultPreference) : \A f \in WalkedFiles(e) :
                (/\ ValidTemplate(e, f)
                 /\ Lower(Files[f].chart_type.s) = Lower(last.arg))
                => HoldsType(e))
       /\ (\E e \in EnginesOf(DefaultPreference) : HoldsType(e)) =>
             /\ last.result # NotFound
             /\ last.result.pass = "exact"
             /\ last.result.engine \in EnginesOf(DefaultPreference)
             /\ last.result.chart_type = Lower(last.arg)
             /\ ResultIsRecordOf(last.result.engine, Lower(last.arg))
             /\ {o.result.chart_name :
                   o \in get_variation_for_chart_type(variations, last.arg,
                                                      last.preference)}
                = {x.k : x \in {GetKey(variations[last.result.engine],
                                       Lower(last.arg))[m] :
                                  m \in DOMAIN GetKey(variations[last.result.engine],
                                                      Lower(last.arg))}}

\* Witness of C2: a call with the default preference that scanned a
\* filesystem holding a valid template of that type in a default engine, and
\* returned one of two chart names registered under the type.
C2_Witness ==
    /\ TypeReturned /\ ~last.preference.given /\ last.walked = ScanOrder
    /\ \E e \in EnginesOf(DefaultPreference) : \E f \in WalkedFiles(e) :
          /\ ValidTemplate(e, f)
          /\ Lower(Files[f].chart_type.s) = Lower(last.arg)
    /\ last.result # NotFound
    /\ Len(GetKey(variations[last.result.engine], last.result.chart_type)) = 2

\* --------------------------------------------------------------------- C3
\* The positions of the preference list whose engine holds the lowercased
\* chart type with a non-empty bucket.
NonEmptyHolders ==
    {i \in DOMAIN UsedPreference :
        /\ HoldsType(UsedPreference[i])
        /\ Len(GetKey(variations[UsedPreference[i]], Lower(last.arg))) > 0}

\* C3: when engines of the preference list hold the lowercased chart type
\* with a non-empty bucket, the returned engine is the one of them that comes
\* first in the list, and the handle is that of a chart name stored under
\* that engine and type.
C3_EarliestPreferredWins ==
    (TypeReturned /\ NonEmptyHolders # {})
    => \E i \in NonEmptyHolders :
          /\ \A j \in NonEmptyHolders : i <= j
          /\ last.result.engine = UsedPreference[i]
          /\ last.result.chart_type = Lower(last.arg)
          /\ ResultIsRecordOf(UsedPreference[i], Lower(last.arg))

\* Witness of C3: two engines of a given list hold the type, and the call
\* returned the record of the first of them although the other comes first
\* in the registry's own order.
C3_Witness ==
    /\ TypeReturned /\ last.preference.given
    /\ Cardinality({UsedPreference[i] : i \in NonEmptyHolders}) = 2
    /\ last.result.engine = "d3-js"

\* --------------------------------------------------------------------- C4
\* C4: a call that walks the roots walks all four, raises nothing and leaves
\* the flag set, whatever the files hold.
C4_ScanAlwaysCompletes ==
    last.walked # << >>
    => /\ ~last.raised
       /\ last.walked = ScanOrder
       /\ variations_scanned

\* --------------------------------------------------------------------- C5
\* The chart names the registry holds.
RegisteredNames == {NameAt(p) : p \in Positions}

\* C5 as stated: get_variation_for_chart_name returns (None, None) only if
\* the registry holds no chart name at all.
C5_NotFoundOnlyIfEmpty ==
    (NameReturned /\ RegisteredNames # {}) => last.result # NotFound

\* C5 as amended: get_variation_for_chart_name returns (None, None) exactly
\* when no registered chart name equals the lowercased argument or shares a
\* character with it; otherwise it returns the record of a registered name.
C5_NotFoundIffNoSharedChar ==
    NameReturned
    => /\ last.result = NotFound
          <=> \A n \in RegisteredNames :
                 n # Lower(last.arg) /\ SharedChars(n, Lower(last.arg)) = 0
       /\ last.result # NotFound
          => \E p \in Positions :
                /\ NameAt(p) = last.result.chart_name
                /\ RecordAt(p).engine_type = last.result.engine
                /\ RecordAt(p).variation = last.result.variation

\* Witness of C5: the registry holds chart names and the call returned
\* (None, None).
C5_Witness ==
    NameReturned /\ RegisteredNames # {} /\ last.result = NotFound

\* --------------------------------------------------------------------- C6
\* C6: a result of the similarity pass is the record of a chart name that
\* shares the most distinct characters with the lowercased argument, and of
\* the first such name in iteration order; "bar" against the names
\* "barchart" and "radar" gives the "barchart" record.
C6_MostSharedCharsFirstWins ==
    (NameReturned /\ last.result.pass = "similarity")
    => /\ \E p \in Positions :
             /\ NameAt(p) = last.result.chart_name
             /\ variations[EngineOrder[p[1]]][p[2]].k = last.result.chart_type
             /\ RecordAt(p).engine_type = last.result.engine
             /\ RecordAt(p).variation = last.result.variation
             /\ \A q \in Positions :
                   /\ SharedChars(NameAt(q), Lower(last.arg))
                        <= SharedChars(NameAt(p), Lower(last.arg))
                   /\ SharedChars(NameAt(q), Lower(last.arg))
                        = SharedChars(NameAt(p), Lower(last.arg))
                      => NotAfter(p, q)
       /\ (/\ last.arg = <<"b","a","r">>
           /\ RegisteredNames = {<<"b","a","r","c","h","a","r","t">>,
                                 <<"r","a","d","a","r">>})
          => last.result.chart_name = <<"b","a","r","c","h","a","r","t">>

\* Witness of C6: the similarity pass returned one of two names that tie, the
\* other one standing later in the same bucket.
C6_Witness ==
    /\ NameReturned /\ last.result.pass = "similarity"
    /\ \E p, q \in Positions :
          /\ p # q /\ p[1] = q[1] /\ p[2] = q[2]
          /\ NameAt(p) = last.result.chart_name
          /\ SharedChars(NameAt(q), Lower(last.arg))
               = SharedChars(NameAt(p), Lower(last.arg))

\* --------------------------------------------------------------------- C7
\* C7: scan_variations(False) called with the flag set reads no directory,
\* raises nothing and leaves the registry and the flag as they are; and a
\* scan_variations call that returns normally leaves the flag set, so that a
\* second scan_variations(False) is such a call whatever the filesystem holds
\* by then.
C7_MemoizedScan ==
    [][(last.op = "idle" /\ last'.op = "scan")
       => /\ (variations_scanned /\ ~last'.force)
             => /\ variations' = variations
                /\ variations_scanned' = variations_scanned
                /\ last'.walked = << >>
                /\ ~last'.raised
          /\ ~last'.raised => variations_scanned']_vars

\* Witness of C7: scan_variations(False) returned from a registry that holds
\* records without walking any root.
C7_Witness ==
    /\ last.op = "scan" /\ ~last.force /\ last.walked = << >>
    /\ variations_scanned
    /\ Positions # {}

\* --------------------------------------------------------------------- C8
\* C8: every record's engine_type is the engine whose bucket holds it; the
\* handle of a record of echarts_py or vegalite_py is the loaded module of
\* its file, and the handle of a record of echarts-js or d3-js is the file's
\* path.
C8_HandleKindByEngine ==
    \A p \in Positions :
       /\ RecordAt(p).engine_type = EngineOrder[p[1]]
       /\ RecordAt(p).variation.path = Files[RecordAt(p).requirements].path
       /\ EngineOrder[p[1]] \in {"echarts_py", "vegalite_py"}
          => RecordAt(p).variation.kind = "module"
       /\ EngineOrder[p[1]] \in {"echarts-js", "d3-js"}
          => RecordAt(p).variation.kind = "path"

\* -------------------------------------------------------------------- C10
\* C10: every chart-type key and every chart-name key of the registry is
\* lowercase; a resolver returns the same for arguments that differ in case
\* only; a file that declares chart_type "Bar" is found under "bar" by
\* get_variation_for_chart_type("BAR"), ("bar") and ("Bar").
C10_LowercaseKeys ==
    /\ \A e \in Engines : \A j \in DOMAIN variations[e] :
          /\ IsLowerStr(variations[e][j].k)
          /\ \A k \in DOMAIN variations[e][j].v : IsLowerStr(variations[e][j].v[k].k)
    /\ TypeReturned
       => \A q \in TypeQueries :
             Lower(q) = Lower(last.arg)
             => get_variation_for_chart_type(variations, q, last.preference)
                = get_variation_for_chart_type(variations, last.arg, last.preference)
    /\ NameReturned
       => get_variation_for_chart_name(variations, Lower(last.arg)) = last.result
    /\ (/\ TypeReturned /\ last.walked = ScanOrder
        /\ last.arg \in {<<"B","A","R">>, <<"b","a","r">>, <<"B","a","r">>}
        /\ \E e \in EnginesOf(UsedPreference) : \E f \in WalkedFiles(e) :
              ValidTemplate(e, f) /\ Files[f].chart_type.s = <<"B","a","r">>)
       => /\ last.result.pass = "exact"
          /\ last.result.chart_type = <<"b","a","r">>

\* Witness of C10: get_variation_for_chart_type("BAR") scanned a filesystem
\* whose file bar.py declares chart_type "Bar" and chart_name "BarChart", and
\* returned its record from the bucket "bar" under the name "barchart".
C10_Witness ==
    /\ TypeReturned /\ last.walked = ScanOrder
    /\ last.arg = <<"B","A","R">>
    /\ "BarPy" \in WalkedFiles("echarts_py")
    /\ last.result.pass = "exact"
    /\ last.result.chart_type = <<"b","a","r">>
    /\ last.result.chart_name = <<"b","a","r","c","h","a","r","t">>

\* --------------------------------------------------------------------- C9
\* The registry a scan of the unchanged filesystem cfs builds when nothing
\* interferes.
Rebuilt == ScanRoots(InitialVariations, cfs, 1, << >>)

\* Registry v holds the lowercased chart type of the resolver thread's last
\* call, with a chart name, under an engine of the default preference.
Registered(v) ==
    \E e \in EnginesOf(DefaultPreference) :
       /\ HasKey(v[e], Lower(observed.arg))
       /\ Len(GetKey(v[e], Lower(observed.arg))) > 0

\* C9: while a forced rescan that found the flag set is in progress the flag
\* stays set, so a get_variation_for_chart_type call made meanwhile triggers
\* no scan of its own and answers from the registry as the rescan has left it
\* so far.
C9_FlagStaysSetDuringRescan ==
    /\ \A t \in Threads : (Scanning(t) /\ thr[t].began) => variations_scanned
    /\ (observed.op = "type" /\ observed.race)
       => /\ ~observed.walked
          /\ ~observed.raised
          /\ variations_scanned

\* Witness of C9: during a forced rescan of an unchanged filesystem, begun
\* from the registry a completed scan built, a call that triggered no scan
\* returned (None, None) for a chart type that the registry held when the
\* rescan began and holds again when it is complete.
C9_Witness ==
    /\ observed.op = "type" /\ observed.race
    /\ ~observed.walked /\ ~observed.raised
    /\ observed.result = NotFound
    /\ ~Rebuilt.raised
    /\ observed.before = Rebuilt.v
    /\ Registered(observed.before)
    /\ Registered(Rebuilt.v)

====
